---- MODULE Spec2Model ----
(***************************************************************************)
(* Model of src/f.py: the process-wide StreamIDCounter and one             *)
(* WebSocketDetector with its two daemon threads (_manage_websocket and    *)
(* _process_messages), the caller of process_frame and the finalizer       *)
(* __del__.  Threads are interleaved at the granularity of their reads and *)
(* writes of the shared attributes (ws, ws_lock, stop_processing,          *)
(* message_queue, StreamIDCounter._counter).                               *)
(***************************************************************************)
EXTENDS Integers, Sequences, FiniteSets, TLC

(* ---- program constants ------------------------------------------------ *)
PROCESSING_WIDTH == 640
PROCESSING_HEIGHT == 640
GRID_SIZE == 300
maxsize == 100
BackoffCap == 10

(* ---- bounds of the model ---------------------------------------------- *)
\* frames handed to process_frame in Spec
MaxFrames == 2
\* transport handles create_connection can return in Spec
MaxHandles == 2
\* consecutive failed attempts of one _connect_websocket call in Spec
MaxAttempt == 1
\* frames of the burst in SpecDown (capacity + 2)
MaxBurst == 102
\* consecutive failed attempts of one _connect_websocket call in SpecDown
MaxDownAttempt == 1
\* consecutive failed attempts of one _connect_websocket call in SpecBackoff
MaxBackoffAttempt == 9
\* handles create_connection can return in SpecBackoff
MaxBackoffHandles == 3
\* regions of a frame in SpecNorm
MaxRegions == 2
\* publishers constructed in SpecAllocSeq and in SpecAlloc
MaxPublishers == 6
MaxConcurrent == 3
\* frames, handles and distinct values of attempt in SpecLive
MaxLiveFrames == 1
MaxLiveHandles == 1
MaxLiveAttempt == 1
MaxRecoverFrames == 2
MaxRecoverHandles == 2
MaxRecoverAttempt == 1

(* ---- values ----------------------------------------------------------- *)
\* Python's None for self.ws; handles are numbered 1, 2, ... in creation order
None == 0
NoId == -1
NoMsg == [camera_id |-> NoId, detections |-> <<>>]
Pubs == 1..MaxPublishers
\* the publisher whose threads are modelled: the first one constructed
Me == 1
Loops == {"mgr", "snd"}
Threads == {"mgr", "snd", "del"}

VARIABLES
  _counter,         \* StreamIDCounter._counter
  ctor,             \* per publisher: position inside __init__/get_next_id
  current_id,       \* per publisher: get_next_id's local current_id
  loaded,           \* per publisher: the value line 28 loaded from _counter
  stream_id,        \* per publisher: self.stream_id (NoId before assignment)
  finalized,        \* publishers whose __del__ has run
  ws,               \* self.ws: None or a handle
  connected,        \* handles whose .connected attribute is True
  ws_lock,          \* owner of self.ws_lock, or "free"
  stop_processing,  \* self.stop_processing
  message_queue,    \* self.message_queue, head first
  pc,               \* per thread: the statement it is about to execute
  back,             \* per loop thread: where _connect_websocket returns to
  attempt,          \* per loop thread: _connect_websocket's local attempt
  delay,            \* per loop thread: the delay being slept (0: not sleeping)
  message,          \* _process_messages' local message (NoMsg: none held)
  frame,            \* input: the frame the caller of SpecNorm hands in
  result,           \* value returned by the last process_frame call
  nframes,          \* history: number of process_frame calls
  produced,         \* history: every message process_frame built
  accepted,         \* history: every message put_nowait accepted
  taken,            \* history: every message Queue.get handed out
  sent,             \* history: every message whose ws.send returned
  failed,           \* history: handles on which a send raised
  nhandles          \* history: handles created so far

vars == <<_counter, ctor, current_id, loaded, stream_id, finalized, ws, connected,
          ws_lock, stop_processing, message_queue, pc, back, attempt, delay,
          message, frame, result, nframes, produced, accepted, taken, sent,
          failed, nhandles>>

allocVars == <<_counter, ctor, current_id, loaded, stream_id, finalized>>
connVars == <<ws, connected, ws_lock, nhandles, failed>>
threadVars == <<pc, back, attempt, delay, message>>
intakeVars == <<message_queue, frame, result, nframes, produced, accepted, taken>>

(* ---- StreamIDCounter --------------------------------------------------- *)
\* variant of NextCounter: the increment is lost
NextCounter_noinc(c) == c
\* line 28: the value self._counter += 1 stores, from the value it loaded
NextCounter(c) == c + 1

\* lines 33, 26-27: __init__ calls get_next_id; current_id = self._counter
get_next_id_read(p) ==
  /\ ctor[p] = "new"
  /\ current_id' = [current_id EXCEPT ![p] = _counter]
  /\ ctor' = [ctor EXCEPT ![p] = "read"]
  /\ UNCHANGED <<_counter, loaded, stream_id, finalized>>

\* line 28, first half: self._counter += 1 loads self._counter
get_next_id_load(p) ==
  /\ ctor[p] = "read"
  /\ loaded' = [loaded EXCEPT ![p] = _counter]
  /\ ctor' = [ctor EXCEPT ![p] = "loaded"]
  /\ UNCHANGED <<_counter, current_id, stream_id, finalized>>

\* line 28, second half, line 29 and line 33: the store of the incremented
\* value, return current_id, self.stream_id = the returned value
get_next_id_store(p) ==
  /\ ctor[p] = "loaded"
  /\ _counter' = NextCounter(loaded[p])
  /\ stream_id' = [stream_id EXCEPT ![p] = current_id[p]]
  /\ ctor' = [ctor EXCEPT ![p] = "done"]
  /\ UNCHANGED <<current_id, loaded, finalized>>

\* lines 167-172 as seen by the allocator: a publisher is finalized; nothing
\* of StreamIDCounter is touched
del_publisher(p) ==
  /\ ctor[p] = "done"
  /\ p \notin finalized
  /\ finalized' = finalized \cup {p}
  /\ UNCHANGED <<_counter, ctor, current_id, loaded, stream_id>>

\* no __init__ is between its line 27 and its line 33
NoConstruction == \A q \in Pubs : ctor[q] \in {"new", "done"}

(* ---- process_frame: regions, normalisation, the queue ------------------ *)
\* A region is [rect |-> <<x, y, w, h>>, object_id |-> k]; k says what the
\* region's object_id attribute is: "absent" (no such attribute), "notcallable",
\* "none" (callable, returns None) or "id" (callable, returns an identifier).

\* variant of HasIdentifier: the test of line 137 is missing
HasIdentifier_any(roi) == roi.object_id \in {"none", "id"}
\* lines 133-138: the two continue statements, negated
HasIdentifier(roi) ==
  /\ roi.object_id \notin {"absent", "notcallable"}
  /\ roi.object_id # "none"

\* variant of GridNum: the clamp of lines 145-146 is missing
GridNum_noclamp(p, extent, size) == (2 * p + extent) * GRID_SIZE
\* lines 141-146: (p + extent/2) / size * GRID_SIZE clamped to [0, GRID_SIZE],
\* kept exact as the numerator of a fraction over 2 * size
GridNum(p, extent, size) ==
  LET v == (2 * p + extent) * GRID_SIZE
      lo == IF v > 0 THEN v ELSE 0
  IN  IF lo < GRID_SIZE * 2 * size THEN lo ELSE GRID_SIZE * 2 * size

\* line 157: int() of num/den, truncation toward zero
int(num, den) == IF num >= 0 THEN num \div den ELSE -((-num) \div den)

\* lines 130-148 and 157 for one region that passed the identifier gate
Dot(roi) ==
  [x |-> int(GridNum(roi.rect[1], roi.rect[3], PROCESSING_WIDTH),
             2 * PROCESSING_WIDTH),
   y |-> int(GridNum(roi.rect[2], roi.rect[4], PROCESSING_HEIGHT),
             2 * PROCESSING_HEIGHT)]

\* lines 128-148, 157: the detections of a frame, in region order
Detections(f) ==
  LET valid == SelectSeq(f, HasIdentifier)
  IN  [i \in 1..Len(valid) |-> Dot(valid[i])]

\* lines 155-158
Message(f) == [camera_id |-> stream_id[Me], detections |-> Detections(f)]

\* variant of Put: a full queue gives up its oldest entry
Put_dropoldest(q, m) == IF Len(q) < maxsize THEN Append(q, m) ELSE Append(Tail(q), m)
\* lines 159-163: put_nowait on queue.Queue(maxsize): appended, or Full is
\* raised and caught and the queue is left as it was
Put(q, m) == IF Len(q) < maxsize THEN Append(q, m) ELSE q

\* variant of Return: whether a message was built
Return_queued(dots) == IF dots # <<>> THEN "True" ELSE "False"
\* line 165: the value process_frame returns
Return(dots) == "True"

\* lines 125-165, one call
process_frame(f) ==
  LET dots == Detections(f)
      m == Message(f)
  IN  /\ nframes' = nframes + 1
      /\ IF dots # <<>>
           THEN /\ message_queue' = Put(message_queue, m)
                /\ produced' = Append(produced, m)
                /\ accepted' = IF Len(message_queue') > Len(message_queue)
                                 THEN Append(accepted, m) ELSE accepted
           ELSE UNCHANGED <<message_queue, produced, accepted>>
      /\ result' = Return(dots)
      /\ UNCHANGED <<allocVars, connVars, threadVars, frame, taken,
                     stop_processing, sent>>

(* ---- the threads -------------------------------------------------------- *)
Goto(t, l) == pc' = [pc EXCEPT ![t] = l]

\* entering _connect_websocket from thread t, to return to label r; line 62
Call_connect(t, r) ==
  /\ pc' = [pc EXCEPT ![t] = "c_while"]
  /\ back' = [back EXCEPT ![t] = r]
  /\ attempt' = [attempt EXCEPT ![t] = 0]

\* variant of Backoff: the cap is missing
Backoff_nocap(n) == 2 ^ (n \div 2)
\* line 78: delay = min(2 ** (attempt // 2), 10)
Backoff(n) == IF 2 ^ (n \div 2) < BackoffCap THEN 2 ^ (n \div 2) ELSE BackoffCap

(* _connect_websocket, lines 60-79, run by thread t *)

\* lines 63-65: the loop test, then attempt += 1; cap bounds the attempts of
\* one call in the model
connect_while(t, cap) ==
  /\ pc[t] = "c_while"
  /\ IF stop_processing
       THEN /\ Goto(t, back[t])
            /\ UNCHANGED attempt
       ELSE /\ attempt[t] < cap
            /\ attempt' = [attempt EXCEPT ![t] = attempt[t] + 1]
            /\ Goto(t, "c_lock")
  /\ UNCHANGED <<allocVars, connVars, intakeVars, back, delay, message,
                 stop_processing, sent>>

\* line 68: with self.ws_lock
connect_lock(t) ==
  /\ pc[t] = "c_lock"
  /\ ws_lock = "free"
  /\ ws_lock' = t
  /\ Goto(t, "c_create")
  /\ UNCHANGED <<allocVars, intakeVars, ws, connected, nhandles, failed, back,
                 attempt, delay, message, stop_processing, sent>>

\* lines 69-74: create_connection returns a new handle, which is stored;
\* the lock is released, attempt = 0, break; cap bounds the handles
connect_create_ok(t, cap) ==
  /\ pc[t] = "c_create"
  /\ nhandles < cap
  /\ nhandles' = nhandles + 1
  /\ ws' = nhandles + 1
  /\ connected' = connected \cup {nhandles + 1}
  /\ ws_lock' = "free"
  /\ attempt' = [attempt EXCEPT ![t] = 0]
  /\ Goto(t, back[t])
  /\ UNCHANGED <<allocVars, intakeVars, failed, back, delay, message,
                 stop_processing, sent>>

\* lines 69, 75-78: create_connection raises; the lock is released and the
\* delay is computed
connect_create_fail(t) ==
  /\ pc[t] = "c_create"
  /\ ws_lock' = "free"
  /\ delay' = [delay EXCEPT ![t] = Backoff(attempt[t])]
  /\ Goto(t, "c_sleep")
  /\ UNCHANGED <<allocVars, intakeVars, ws, connected, nhandles, failed, back,
                 attempt, message, stop_processing, sent>>

\* line 79: time.sleep(delay) returns
connect_sleep(t) ==
  /\ pc[t] = "c_sleep"
  /\ delay' = [delay EXCEPT ![t] = 0]
  /\ Goto(t, "c_while")
  /\ UNCHANGED <<allocVars, connVars, intakeVars, back, attempt, message,
                 stop_processing, sent>>

(* _manage_websocket, lines 51-58 *)

\* line 53: while not self.stop_processing
manage_while ==
  /\ pc["mgr"] = "m_while"
  /\ Goto("mgr", IF stop_processing THEN "done" ELSE "m_if")
  /\ UNCHANGED <<allocVars, connVars, intakeVars, back, attempt, delay, message,
                 stop_processing, sent>>

\* line 54, first operand: not self.ws
manage_if ==
  /\ pc["mgr"] = "m_if"
  /\ IF ws = None
       THEN Call_connect("mgr", "m_sleep")
       ELSE Goto("mgr", "m_if2") /\ UNCHANGED <<back, attempt>>
  /\ UNCHANGED <<allocVars, connVars, intakeVars, delay, message,
                 stop_processing, sent>>

\* line 54, second operand: not self.ws.connected, a second load of self.ws;
\* on None the AttributeError leaves the thread's target function
manage_if2 ==
  /\ pc["mgr"] = "m_if2"
  /\ IF ws = None
       THEN Goto("mgr", "crashed") /\ UNCHANGED <<back, attempt>>
       ELSE IF ws \notin connected
              THEN Call_connect("mgr", "m_sleep")
              ELSE Goto("mgr", "h_if") /\ UNCHANGED <<back, attempt>>
  /\ UNCHANGED <<allocVars, connVars, intakeVars, delay, message,
                 stop_processing, sent>>

\* line 58: time.sleep(2) returns
manage_sleep ==
  /\ pc["mgr"] = "m_sleep"
  /\ Goto("mgr", "m_while")
  /\ UNCHANGED <<allocVars, connVars, intakeVars, back, attempt, delay, message,
                 stop_processing, sent>>

(* _send_heartbeat, lines 81-93 *)

\* line 83, first operand: self.ws
heartbeat_if ==
  /\ pc["mgr"] = "h_if"
  /\ Goto("mgr", IF ws = None THEN "m_sleep" ELSE "h_if2")
  /\ UNCHANGED <<allocVars, connVars, intakeVars, back, attempt, delay, message,
                 stop_processing, sent>>

\* line 83, second operand: self.ws.connected, outside the try
heartbeat_if2 ==
  /\ pc["mgr"] = "h_if2"
  /\ Goto("mgr", IF ws = None THEN "crashed"
                 ELSE IF ws \notin connected THEN "m_sleep" ELSE "h_lock")
  /\ UNCHANGED <<allocVars, connVars, intakeVars, back, attempt, delay, message,
                 stop_processing, sent>>

\* line 85: with self.ws_lock
heartbeat_lock ==
  /\ pc["mgr"] = "h_lock"
  /\ ws_lock = "free"
  /\ ws_lock' = "mgr"
  /\ Goto("mgr", "h_send")
  /\ UNCHANGED <<allocVars, intakeVars, ws, connected, nhandles, failed, back,
                 attempt, delay, message, stop_processing, sent>>

\* line 86: self.ws.send returns; the lock is released
heartbeat_send_ok ==
  /\ pc["mgr"] = "h_send"
  /\ ws # None
  /\ ws \in connected
  /\ ws_lock' = "free"
  /\ Goto("mgr", "m_sleep")
  /\ UNCHANGED <<allocVars, intakeVars, ws, connected, nhandles, failed, back,
                 attempt, delay, message, stop_processing, sent>>

\* lines 86, 89: self.ws.send raises (or self.ws is None: AttributeError);
\* the lock is released on the way to the except clause
heartbeat_send_fail ==
  /\ pc["mgr"] = "h_send"
  /\ failed' = IF ws = None THEN failed ELSE failed \cup {ws}
  /\ ws_lock' = "free"
  /\ Goto("mgr", "h_exc")
  /\ UNCHANGED <<allocVars, intakeVars, ws, connected, nhandles, back,
                 attempt, delay, message, stop_processing, sent>>

\* line 92: with self.ws_lock, in the except clause
heartbeat_exc ==
  /\ pc["mgr"] = "h_exc"
  /\ ws_lock = "free"
  /\ ws_lock' = "mgr"
  /\ Goto("mgr", "h_clear")
  /\ UNCHANGED <<allocVars, intakeVars, ws, connected, nhandles, failed, back,
                 attempt, delay, message, stop_processing, sent>>

\* variant of heartbeat_clear: the except clause leaves self.ws as it is
heartbeat_clear_keep ==
  /\ pc["mgr"] = "h_clear"
  /\ ws_lock' = "free"
  /\ Goto("mgr", "m_sleep")
  /\ UNCHANGED <<allocVars, intakeVars, ws, connected, nhandles, failed, back,
                 attempt, delay, message, stop_processing, sent>>

\* line 93: self.ws = None; the lock is released
heartbeat_clear ==
  /\ pc["mgr"] = "h_clear"
  /\ ws' = None
  /\ ws_lock' = "free"
  /\ Goto("mgr", "m_sleep")
  /\ UNCHANGED <<allocVars, intakeVars, connected, nhandles, failed, back,
                 attempt, delay, message, stop_processing, sent>>

(* _process_messages, lines 95-103 *)

\* variant of Get: the newest entry is handed out
Get_newest(q) == <<q[Len(q)], SubSeq(q, 1, Len(q) - 1)>>
\* line 99: what Queue.get hands out and what it leaves: the oldest entry
Get(q) == <<Head(q), Tail(q)>>

\* line 97: while not self.stop_processing
process_while ==
  /\ pc["snd"] = "s_while"
  /\ Goto("snd", IF stop_processing THEN "done" ELSE "s_get")
  /\ UNCHANGED <<allocVars, connVars, intakeVars, back, attempt, delay, message,
                 stop_processing, sent>>

\* lines 99-100, 102-103: get(timeout=1) returns an entry, or times out on an
\* empty queue and the loop continues
process_get ==
  /\ pc["snd"] = "s_get"
  /\ IF message_queue # <<>>
       THEN /\ message' = Get(message_queue)[1]
            /\ message_queue' = Get(message_queue)[2]
            /\ taken' = Append(taken, Get(message_queue)[1])
            /\ Goto("snd", "sm_if")
       ELSE /\ Goto("snd", "s_while")
            /\ UNCHANGED <<message, message_queue, taken>>
  /\ UNCHANGED <<allocVars, connVars, frame, result, nframes, produced, accepted,
                 back, attempt, delay, stop_processing, sent>>

\* line 101: task_done, after _send_message returned; back to the loop test
process_done ==
  /\ pc["snd"] = "s_done"
  /\ message' = NoMsg
  /\ Goto("snd", "s_while")
  /\ UNCHANGED <<allocVars, connVars, intakeVars, back, attempt, delay,
                 stop_processing, sent>>

(* _send_message, lines 105-123 *)

\* line 107, first operand: not self.ws
send_if ==
  /\ pc["snd"] = "sm_if"
  /\ IF ws = None
       THEN Call_connect("snd", "sm_if3")
       ELSE Goto("snd", "sm_if2") /\ UNCHANGED <<back, attempt>>
  /\ UNCHANGED <<allocVars, connVars, intakeVars, delay, message,
                 stop_processing, sent>>

\* line 107, second operand: not self.ws.connected; on None the
\* AttributeError is not a queue.Empty and leaves _process_messages
send_if2 ==
  /\ pc["snd"] = "sm_if2"
  /\ IF ws = None
       THEN Goto("snd", "crashed") /\ UNCHANGED <<back, attempt>>
       ELSE IF ws \notin connected
              THEN Call_connect("snd", "sm_if3")
              ELSE Goto("snd", "sm_lock") /\ UNCHANGED <<back, attempt>>
  /\ UNCHANGED <<allocVars, connVars, intakeVars, delay, message,
                 stop_processing, sent>>

\* line 109, first operand, after _connect_websocket returned; lines 110-112
\* drop the message
send_if3 ==
  /\ pc["snd"] = "sm_if3"
  /\ Goto("snd", IF ws = None THEN "s_done" ELSE "sm_if4")
  /\ UNCHANGED <<allocVars, connVars, intakeVars, back, attempt, delay, message,
                 stop_processing, sent>>

\* line 109, second operand
send_if4 ==
  /\ pc["snd"] = "sm_if4"
  /\ Goto("snd", IF ws = None THEN "crashed"
                 ELSE IF ws \notin connected THEN "s_done" ELSE "sm_lock")
  /\ UNCHANGED <<allocVars, connVars, intakeVars, back, attempt, delay, message,
                 stop_processing, sent>>

\* line 114: with self.ws_lock
send_lock ==
  /\ pc["snd"] = "sm_lock"
  /\ ws_lock = "free"
  /\ ws_lock' = "snd"
  /\ Goto("snd", "sm_send")
  /\ UNCHANGED <<allocVars, intakeVars, ws, connected, nhandles, failed, back,
                 attempt, delay, message, stop_processing, sent>>

\* line 115: self.ws.send returns; the lock is released
send_send_ok ==
  /\ pc["snd"] = "sm_send"
  /\ ws # None
  /\ ws \in connected
  /\ sent' = Append(sent, message)
  /\ ws_lock' = "free"
  /\ Goto("snd", "s_done")
  /\ UNCHANGED <<allocVars, intakeVars, ws, connected, nhandles, failed, back,
                 attempt, delay, message, stop_processing>>

\* lines 115, 118: self.ws.send raises (or self.ws is None: AttributeError)
send_send_fail ==
  /\ pc["snd"] = "sm_send"
  /\ failed' = IF ws = None THEN failed ELSE failed \cup {ws}
  /\ ws_lock' = "free"
  /\ Goto("snd", "sm_exc")
  /\ UNCHANGED <<allocVars, intakeVars, ws, connected, nhandles, back,
                 attempt, delay, message, stop_processing, sent>>

\* line 121: with self.ws_lock, in the except clause
send_exc ==
  /\ pc["snd"] = "sm_exc"
  /\ ws_lock = "free"
  /\ ws_lock' = "snd"
  /\ Goto("snd", "sm_clear")
  /\ UNCHANGED <<allocVars, intakeVars, ws, connected, nhandles, failed, back,
                 attempt, delay, message, stop_processing, sent>>

\* lines 122-123: self.ws = None; the lock is released; _connect_websocket
send_clear ==
  /\ pc["snd"] = "sm_clear"
  /\ ws' = None
  /\ ws_lock' = "free"
  /\ Call_connect("snd", "s_done")
  /\ UNCHANGED <<allocVars, intakeVars, connected, nhandles, failed, delay,
                 message, stop_processing, sent>>

(* __del__, lines 167-172 *)

\* line 169: self.stop_processing = True
del_stop ==
  /\ pc["del"] = "d_idle"
  /\ stop_processing' = TRUE
  /\ Goto("del", "d_if")
  /\ UNCHANGED <<allocVars, connVars, intakeVars, back, attempt, delay, message,
                 sent>>

\* line 170: if self.ws
del_if ==
  /\ pc["del"] = "d_if"
  /\ Goto("del", IF ws = None THEN "done" ELSE "d_lock")
  /\ UNCHANGED <<allocVars, connVars, intakeVars, back, attempt, delay, message,
                 stop_processing, sent>>

\* line 171: with self.ws_lock
del_lock ==
  /\ pc["del"] = "d_lock"
  /\ ws_lock = "free"
  /\ ws_lock' = "del"
  /\ Goto("del", "d_close")
  /\ UNCHANGED <<allocVars, intakeVars, ws, connected, nhandles, failed, back,
                 attempt, delay, message, stop_processing, sent>>

\* line 172: self.ws.close(), a second load of self.ws (AttributeError on
\* None); the lock is released
del_close ==
  /\ pc["del"] = "d_close"
  /\ connected' = IF ws = None THEN connected ELSE connected \ {ws}
  /\ ws_lock' = "free"
  /\ Goto("del", "done")
  /\ UNCHANGED <<allocVars, intakeVars, ws, nhandles, failed, back,
                 attempt, delay, message, stop_processing, sent>>

(* ---- inputs ------------------------------------------------------------- *)
Region(x, y, w, h, k) == [rect |-> <<x, y, w, h>>, object_id |-> k]

\* frames of Spec: the n-th call is handed either a frame without any
\* identifier or a frame whose detections differ from call to call
NoIdFrame == <<Region(10, 10, 4, 4, "absent"), Region(0, 0, 0, 0, "none")>>
MainFrame(n) ==
  <<Region(0, 0, 0, 0, "notcallable"), Region(100 * n, 100, 50, 50, "id")>>
MainFrames(n) == {NoIdFrame, MainFrame(n)}

\* the n-th frame of the burst of SpecDown: one region, a different point for
\* every n
BurstFrame(n) == <<Region(3 * n, 0, 0, 0, "id")>>

\* frames of SpecNorm: up to MaxRegions regions over rectangles inside,
\* astride and outside the processing area, with every kind of identifier
NormRects ==
  { <<100, 100, 50, 50>>, <<0, 0, 0, 0>>, <<-50, 700, 20, 20>>,
    <<639, 639, 640, 640>>, <<320, 10, 1, 3>>, <<600, -5, 100, 4>> }
NormRegions ==
  { [rect |-> r, object_id |-> k] :
      r \in NormRects, k \in {"absent", "notcallable", "none", "id"} }
NormFrames == UNION { [1..n -> NormRegions] : n \in 0..MaxRegions }

(* ---- initial states ----------------------------------------------------- *)
\* no publisher constructed yet
InitAlloc ==
  /\ _counter = 0
  /\ ctor = [p \in Pubs |-> "new"]
  /\ current_id = [p \in Pubs |-> NoId]
  /\ loaded = [p \in Pubs |-> NoId]
  /\ stream_id = [p \in Pubs |-> NoId]
  /\ finalized = {}
  /\ ws = None
  /\ connected = {}
  /\ ws_lock = "free"
  /\ stop_processing = FALSE
  /\ message_queue = <<>>
  /\ pc = [t \in Threads |-> "unstarted"]
  /\ back = [t \in Loops |-> "none"]
  /\ attempt = [t \in Loops |-> 0]
  /\ delay = [t \in Loops |-> 0]
  /\ message = NoMsg
  /\ frame = <<>>
  /\ result = "none"
  /\ nframes = 0
  /\ produced = <<>>
  /\ accepted = <<>>
  /\ taken = <<>>
  /\ sent = <<>>
  /\ failed = {}
  /\ nhandles = 0

\* lines 32-39: the first publisher of the process has been constructed
Init ==
  /\ _counter = 1
  /\ ctor = [p \in Pubs |-> IF p = Me THEN "done" ELSE "new"]
  /\ current_id = [p \in Pubs |-> IF p = Me THEN 0 ELSE NoId]
  /\ loaded = [p \in Pubs |-> IF p = Me THEN 0 ELSE NoId]
  /\ stream_id = [p \in Pubs |-> IF p = Me THEN 0 ELSE NoId]
  /\ finalized = {}
  /\ ws = None
  /\ connected = {}
  /\ ws_lock = "free"
  /\ stop_processing = FALSE
  /\ message_queue = <<>>
  /\ pc = [t \in Threads |->
             IF t = "mgr" THEN "m_while" ELSE IF t = "snd" THEN "s_while" ELSE "d_idle"]
  /\ back = [t \in Loops |-> "none"]
  /\ attempt = [t \in Loops |-> 0]
  /\ delay = [t \in Loops |-> 0]
  /\ message = NoMsg
  /\ frame = <<>>
  /\ result = "none"
  /\ nframes = 0
  /\ produced = <<>>
  /\ accepted = <<>>
  /\ taken = <<>>
  /\ sent = <<>>
  /\ failed = {}
  /\ nhandles = 0

\* as Init, with the frame the caller is about to hand in
InitNorm ==
  /\ _counter = 1
  /\ ctor = [p \in Pubs |-> IF p = Me THEN "done" ELSE "new"]
  /\ current_id = [p \in Pubs |-> IF p = Me THEN 0 ELSE NoId]
  /\ loaded = [p \in Pubs |-> IF p = Me THEN 0 ELSE NoId]
  /\ stream_id = [p \in Pubs |-> IF p = Me THEN 0 ELSE NoId]
  /\ finalized = {}
  /\ ws = None
  /\ connected = {}
  /\ ws_lock = "free"
  /\ stop_processing = FALSE
  /\ message_queue = <<>>
  /\ pc = [t \in Threads |->
             IF t = "mgr" THEN "m_while" ELSE IF t = "snd" THEN "s_while" ELSE "d_idle"]
  /\ back = [t \in Loops |-> "none"]
  /\ attempt = [t \in Loops |-> 0]
  /\ delay = [t \in Loops |-> 0]
  /\ message = NoMsg
  /\ frame \in NormFrames
  /\ result = "none"
  /\ nframes = 0
  /\ produced = <<>>
  /\ accepted = <<>>
  /\ taken = <<>>
  /\ sent = <<>>
  /\ failed = {}
  /\ nhandles = 0

(* ---- specifications ----------------------------------------------------- *)
mainVars == <<connVars, threadVars, intakeVars, stop_processing, sent>>

\* one publisher, every interleaving of its threads, its caller and __del__
Next ==
  \/ \E f \in MainFrames(nframes + 1) : nframes < MaxFrames /\ process_frame(f)
  \/ \E t \in Loops : connect_while(t, MaxAttempt)
  \/ \E t \in Loops : connect_lock(t)
  \/ \E t \in Loops : connect_create_ok(t, MaxHandles)
  \/ \E t \in Loops : connect_create_fail(t)
  \/ \E t \in Loops : connect_sleep(t)
  \/ manage_while
  \/ manage_if
  \/ manage_if2
  \/ manage_sleep
  \/ heartbeat_if
  \/ heartbeat_if2
  \/ heartbeat_lock
  \/ heartbeat_send_ok
  \/ heartbeat_send_fail
  \/ heartbeat_exc
  \/ heartbeat_clear
  \/ process_while
  \/ process_get
  \/ process_done
  \/ send_if
  \/ send_if2
  \/ send_if3
  \/ send_if4
  \/ send_lock
  \/ send_send_ok
  \/ send_send_fail
  \/ send_exc
  \/ send_clear
  \/ del_stop
  \/ del_if
  \/ del_lock
  \/ del_close

Spec == Init /\ [][Next]_vars

\* publishers constructed one after the other, in index order
NextAllocSeq ==
  \/ \E p \in Pubs :
       /\ NoConstruction
       /\ \A q \in Pubs : q < p => ctor[q] = "done"
       /\ get_next_id_read(p)
       /\ UNCHANGED mainVars
  \/ \E p \in Pubs : get_next_id_load(p) /\ UNCHANGED mainVars
  \/ \E p \in Pubs : get_next_id_store(p) /\ UNCHANGED mainVars
  \/ \E p \in Pubs : del_publisher(p) /\ UNCHANGED mainVars

SpecAllocSeq == InitAlloc /\ [][NextAllocSeq]_vars

\* publishers constructed by concurrent threads
NextAlloc ==
  \/ \E p \in 1..MaxConcurrent : get_next_id_read(p) /\ UNCHANGED mainVars
  \/ \E p \in 1..MaxConcurrent : get_next_id_load(p) /\ UNCHANGED mainVars
  \/ \E p \in 1..MaxConcurrent : get_next_id_store(p) /\ UNCHANGED mainVars
  \/ \E p \in 1..MaxConcurrent : del_publisher(p) /\ UNCHANGED mainVars

SpecAlloc == InitAlloc /\ [][NextAlloc]_vars

\* one call of process_frame on the frame drawn by InitNorm
NextNorm == nframes = 0 /\ process_frame(frame)

SpecNorm == InitNorm /\ [][NextNorm]_vars

\* the endpoint refuses every connection while the caller hands in a burst
\* of frames: the program with create_connection always raising
NextDown ==
  \/ nframes < MaxBurst /\ process_frame(BurstFrame(nframes + 1))
  \/ \E t \in Loops : connect_while(t, MaxDownAttempt)
  \/ \E t \in Loops : connect_lock(t)
  \/ \E t \in Loops : connect_create_fail(t)
  \/ \E t \in Loops : connect_sleep(t)
  \/ manage_while
  \/ manage_if
  \/ manage_sleep
  \/ process_while
  \/ process_get
  \/ process_done
  \/ send_if
  \/ send_if3
  \/ del_stop
  \/ del_if

SpecDown == Init /\ [][NextDown]_vars

\* no frame arrives: the supervisory thread connects, sends heartbeats and
\* reconnects while the Sender polls an empty queue
NextBackoff ==
  \/ connect_while("mgr", MaxBackoffAttempt)
  \/ connect_lock("mgr")
  \/ connect_create_ok("mgr", MaxBackoffHandles)
  \/ connect_create_fail("mgr")
  \/ connect_sleep("mgr")
  \/ manage_while
  \/ manage_if
  \/ manage_if2
  \/ manage_sleep
  \/ heartbeat_if
  \/ heartbeat_if2
  \/ heartbeat_lock
  \/ heartbeat_send_ok
  \/ heartbeat_send_fail
  \/ heartbeat_exc
  \/ heartbeat_clear
  \/ process_while
  \/ process_get
  \/ del_stop
  \/ del_if
  \/ del_lock
  \/ del_close

SpecBackoff == Init /\ [][NextBackoff]_vars

(* ---- properties ---------------------------------------------------------- *)
Min(a, b) == IF a < b THEN a ELSE b

RECURSIVE IsSubseq(_, _)
\* s can be obtained from t by deleting entries
IsSubseq(s, t) ==
  IF s = <<>> THEN TRUE
  ELSE IF t = <<>> THEN FALSE
  ELSE IF Head(s) = Head(t) THEN IsSubseq(Tail(s), Tail(t))
  ELSE IsSubseq(s, Tail(t))

\* a step of the caller: one call of process_frame
IntakeStep == nframes' = nframes + 1

\* C1: the queue never holds more than maxsize (100) messages; a message built
\* while the queue holds maxsize messages is discarded and the queue is left
\* as it was; while the Sender has taken nothing, the queue is the first
\* maxsize messages built, in the order they were built.
C1_DropNewest ==
  /\ [](Len(message_queue) <= maxsize)
  /\ [][(IntakeStep /\ Len(message_queue) = maxsize)
          => message_queue' = message_queue]_vars
  /\ [](taken = <<>> =>
          message_queue = SubSeq(produced, 1, Min(Len(produced), maxsize)))

\* C1 witness: capacity + 1 messages were built while the Sender took nothing;
\* the last one is not in the queue
C1_Witness ==
  /\ taken = <<>>
  /\ Len(produced) = maxsize + 1
  /\ Len(message_queue) = maxsize
  /\ message_queue[maxsize] = produced[maxsize]
  /\ message_queue[1] = produced[1]

\* C2: the batches transmitted on the transport, in transmission order, are
\* a subsequence of the batches accepted into the queue, in acceptance order.
C2_FifoDelivery == IsSubseq(sent, accepted)

\* C2 witness: two different batches were transmitted, on two different
\* handles (a failure and a reconnect lie between them)
C2_Witness ==
  /\ Len(sent) = 2
  /\ sent[1] # sent[2]
  /\ nhandles = 2
  /\ failed # {}

\* thread t completes a ws.send call (line 86 or line 115) on a handle
SendsOnHandle(t) ==
  /\ pc[t] = (IF t = "mgr" THEN "h_send" ELSE "sm_send")
  /\ pc'[t] # pc[t]
  /\ ws # None

\* C3: once a send has raised on a handle, no later send (data or heartbeat,
\* by either thread) is made on that handle.
C3_NoStaleSend ==
  [][\A t \in Loops : SendsOnHandle(t) => ws \notin failed]_vars

\* C4: while the stop flag is unset the Sender thread is inside its loop.
C4_SenderRuns == ~stop_processing => pc["snd"] \notin {"crashed", "done"}

\* publishers whose __init__ has completed line 33
Constructed == {p \in Pubs : ctor[p] = "done"}

\* C5: with publishers constructed one after the other, the k-th publisher
\* constructed has identifier k - 1; an identifier, once assigned, never
\* changes; no two publishers, finalized or not, share an identifier.
C5_SequentialIds ==
  /\ [](\A p \in Constructed : stream_id[p] = p - 1)
  /\ [](\A p, q \in Constructed : p # q => stream_id[p] # stream_id[q])
  /\ [][\A p \in Pubs : stream_id[p] # NoId => stream_id'[p] = stream_id[p]]_vars

\* C5 witness: the first two publishers got 0 and 1, both were finalized, and
\* a third one constructed afterwards got 2
C5_Witness ==
  /\ {1, 2, 3} \subseteq Constructed
  /\ {1, 2} \subseteq finalized
  /\ stream_id[1] = 0 /\ stream_id[2] = 1 /\ stream_id[3] = 2
  /\ _counter = 3

\* C6: with get_next_id calls interleaved, every publisher has a distinct
\* identifier, and when no call is in progress the counter equals the number
\* of identifiers handed out.
C6_ConcurrentIds ==
  /\ \A p, q \in Constructed : p # q => stream_id[p] # stream_id[q]
  /\ NoConstruction => _counter = Cardinality(Constructed)

\* the delays of consecutive failed attempts, as the claim lists them
DelayOfAttempt(n) == IF n <= 9 THEN <<1, 2, 2, 4, 4, 8, 8, 10, 10>>[n] ELSE 10

\* thread t enters _connect_websocket
EntersConnect(t) == pc[t] \notin {"c_while", "c_sleep"} /\ pc'[t] = "c_while"

\* create_connection returns in thread t
ConnectSucceeds(t) == pc[t] = "c_create" /\ nhandles' = nhandles + 1

\* C7: the delay slept after the n-th consecutive failed attempt of one
\* _connect_websocket call is min(2^(n div 2), 10), that is 1, 2, 2, 4, 4, 8,
\* 8, 10, 10, ...: never above 10; attempt is 0 on entry and after a success.
C7_Backoff ==
  /\ [](\A t \in Loops : pc[t] = "c_sleep" =>
          /\ attempt[t] >= 1
          /\ delay[t] = Min(2 ^ (attempt[t] \div 2), 10)
          /\ delay[t] = DelayOfAttempt(attempt[t])
          /\ \A n \in 1..attempt[t] : DelayOfAttempt(n) <= delay[t]
          /\ delay[t] <= 10)
  /\ [][\A t \in Loops :
          (EntersConnect(t) \/ ConnectSucceeds(t)) => attempt'[t] = 0]_vars

\* C7 witness: after an earlier successful connect and a later reconnect, the
\* eighth consecutive failure sleeps 10 seconds
C7_Witness ==
  /\ pc["mgr"] = "c_sleep"
  /\ attempt["mgr"] = 8
  /\ delay["mgr"] = 10
  /\ nhandles >= 1

\* k is trunc(clamp((p + extent/2) / size * GRID_SIZE, 0, GRID_SIZE)), stated
\* without division: v = (2p + extent) * GRID_SIZE / (2 * size)
IsGridCoord(k, p, extent, size) ==
  LET num == (2 * p + extent) * GRID_SIZE
      den == 2 * size
  IN  /\ k \in 0..GRID_SIZE
      /\ num <= 0 => k = 0
      /\ num >= GRID_SIZE * den => k = GRID_SIZE
      /\ (0 < num /\ num < GRID_SIZE * den) => (k * den <= num /\ num < (k + 1) * den)

\* the regions of the drawn frame whose object_id() returns an identifier
Identified == SelectSeq(frame, LAMBDA r : r.object_id = "id")

\* every detection in the queue, in a message held by the Sender or transmitted
AllMessages ==
  {message_queue[i] : i \in 1..Len(message_queue)}
    \cup {sent[i] : i \in 1..Len(sent)} \cup ({message} \ {NoMsg})

\* C8: the i-th point of the batch built from a frame is, on each axis
\* independently, trunc(clamp((x + w/2) / 640 * 300, 0, 300)) of the i-th
\* identified region; every coordinate is an integer in 0..300; the rectangle
\* (100, 100, 50, 50) gives (58, 58).
C8_GridCoordinates ==
  /\ \A m \in AllMessages : \A i \in 1..Len(m.detections) :
       m.detections[i].x \in 0..GRID_SIZE /\ m.detections[i].y \in 0..GRID_SIZE
  /\ (nframes = 1 /\ message_queue # <<>>) =>
       LET d == message_queue[1].detections
       IN  /\ Len(d) = Len(Identified)
           /\ \A i \in 1..Len(d) :
                /\ IsGridCoord(d[i].x, Identified[i].rect[1], Identified[i].rect[3],
                               PROCESSING_WIDTH)
                /\ IsGridCoord(d[i].y, Identified[i].rect[2], Identified[i].rect[4],
                               PROCESSING_HEIGHT)
                /\ Identified[i].rect = <<100, 100, 50, 50>> => d[i] = [x |-> 58, y |-> 58]

\* C8 witness: a frame with the rectangle of the example and one that is left
\* of and below the processing area
C8_Witness ==
  /\ nframes = 1
  /\ frame = <<Region(100, 100, 50, 50, "id"), Region(-50, 700, 20, 20, "id")>>
  /\ message_queue =
       <<[camera_id |-> 0, detections |-> <<[x |-> 58, y |-> 58], [x |-> 0, y |-> 300]>>]>>

\* C9: the batch has one point per region whose identifier resolves, in
\* region order, and none for the others; a frame without such a region
\* enqueues nothing; no message anywhere has an empty list of detections.
C9_IdentifierGate ==
  /\ \A m \in AllMessages : Len(m.detections) >= 1
  /\ nframes = 1 =>
       IF Identified = <<>>
         THEN message_queue = <<>> /\ produced = <<>>
         ELSE /\ Len(message_queue) = 1
              /\ message_queue[1].detections =
                   [i \in 1..Len(Identified) |-> Dot(Identified[i])]

\* C9 witness: the identified region comes second, after a region whose
\* object_id() returns None; only it is in the batch
C9_Witness ==
  /\ nframes = 1
  /\ frame = <<Region(100, 100, 50, 50, "none"), Region(320, 10, 1, 3, "id")>>
  /\ Len(message_queue) = 1
  /\ Len(message_queue[1].detections) = 1

\* C10: every call of process_frame returns True and leaves the handle, its
\* connected flag, the lock, the stop flag and the threads as they were; the
\* call does not wait for the Sender: it can be made while the Sender is
\* inside ws.send holding the lock, and after the Sender thread has died.
C10_IntakeSucceeds ==
  /\ [][IntakeStep =>
          /\ result' = "True"
          /\ ws' = ws /\ connected' = connected /\ ws_lock' = ws_lock
          /\ stop_processing' = stop_processing
          /\ pc' = pc]_vars
  /\ [](pc["snd"] \in {"sm_send", "crashed"} =>
          ENABLED process_frame(MainFrame(nframes + 1)))

\* C10 witness: a frame without identifiers was processed while the handle
\* was absent after a failed send; True was returned and nothing queued
C10_Witness ==
  /\ result = "True"
  /\ nframes = 1
  /\ produced = <<>>
  /\ message_queue = <<>>
  /\ ws = None
  /\ failed # {}

\* every message queued, held by the Sender or transmitted is a batch of this
\* publisher with at least one point, all coordinates in 0..GRID_SIZE; an
\* invariant of Spec and of SpecDown
MessagesWellFormed ==
  \A m \in AllMessages :
    /\ m.camera_id = stream_id[Me]
    /\ Len(m.detections) >= 1
    /\ \A i \in 1..Len(m.detections) :
         m.detections[i].x \in 0..GRID_SIZE /\ m.detections[i].y \in 0..GRID_SIZE

(* ---- the threads under fair scheduling ----------------------------------- *)
\* variant of connect_retry: the loop of line 63 does not test the stop flag
connect_retry_nostop(t, cap) ==
  /\ pc[t] = "c_while"
  /\ attempt' = [attempt EXCEPT ![t] = Min(attempt[t] + 1, cap)]
  /\ Goto(t, "c_lock")
  /\ UNCHANGED <<allocVars, connVars, intakeVars, back, delay, message,
                 stop_processing, sent>>

\* lines 63-65 as connect_while, with attempt kept at cap once it has reached
\* it, so that a retry sequence of any length stays inside the model: past cap
\* only the computed delay, which no thread reads, depends on attempt
connect_retry(t, cap) ==
  /\ pc[t] = "c_while"
  /\ IF stop_processing
       THEN /\ Goto(t, back[t])
            /\ UNCHANGED attempt
       ELSE /\ attempt' = [attempt EXCEPT ![t] = Min(attempt[t] + 1, cap)]
            /\ Goto(t, "c_lock")
  /\ UNCHANGED <<allocVars, connVars, intakeVars, back, delay, message,
                 stop_processing, sent>>

\* a step of the supervisory thread (target _manage_websocket, line 43), with
\* at most h handles created and attempt kept at a
MgrStep(h, a) ==
  \/ connect_retry("mgr", a)
  \/ connect_lock("mgr")
  \/ connect_create_ok("mgr", h)
  \/ connect_create_fail("mgr")
  \/ connect_sleep("mgr")
  \/ manage_while
  \/ manage_if
  \/ manage_if2
  \/ manage_sleep
  \/ heartbeat_if
  \/ heartbeat_if2
  \/ heartbeat_lock
  \/ heartbeat_send_ok
  \/ heartbeat_send_fail
  \/ heartbeat_exc
  \/ heartbeat_clear

\* a step of the Sender thread (target _process_messages, line 48)
SndStep(h, a) ==
  \/ connect_retry("snd", a)
  \/ connect_lock("snd")
  \/ connect_create_ok("snd", h)
  \/ connect_create_fail("snd")
  \/ connect_sleep("snd")
  \/ process_while
  \/ process_get
  \/ process_done
  \/ send_if
  \/ send_if2
  \/ send_if3
  \/ send_if4
  \/ send_lock
  \/ send_send_ok
  \/ send_send_fail
  \/ send_exc
  \/ send_clear

\* a step of __del__ after its first statement
DelStep == del_if \/ del_lock \/ del_close

\* the acquisitions of ws_lock by each loop thread
MgrLockStep == connect_lock("mgr") \/ heartbeat_lock \/ heartbeat_exc
SndLockStep == connect_lock("snd") \/ send_lock \/ send_exc

\* the publisher with its caller handing in at most f frames
LiveNext(f, h, a) ==
  \/ \E fr \in MainFrames(nframes + 1) : nframes < f /\ process_frame(fr)
  \/ MgrStep(h, a)
  \/ SndStep(h, a)
  \/ del_stop
  \/ DelStep

\* Both daemon threads and a started __del__ keep being scheduled; every
\* sleep, poll and network call returns (each has a timeout); a thread waiting
\* for ws_lock gets it if it is free again and again.
LiveFairness(h, a) ==
  /\ WF_vars(MgrStep(h, a))
  /\ WF_vars(SndStep(h, a))
  /\ WF_vars(DelStep)
  /\ SF_vars(MgrLockStep)
  /\ SF_vars(SndLockStep)

NextLive == LiveNext(MaxLiveFrames, MaxLiveHandles, MaxLiveAttempt)

Fairness == LiveFairness(MaxLiveHandles, MaxLiveAttempt)

SpecLive == Init /\ [][NextLive]_vars /\ Fairness

\* the same threads with room for a reconnect and for a frame handed in after
\* it; __del__ is not called
NextRecover ==
  \/ \E fr \in MainFrames(nframes + 1) : nframes < MaxRecoverFrames /\ process_frame(fr)
  \/ MgrStep(MaxRecoverHandles, MaxRecoverAttempt)
  \/ SndStep(MaxRecoverHandles, MaxRecoverAttempt)

SpecRecover ==
  Init /\ [][NextRecover]_vars /\ LiveFairness(MaxRecoverHandles, MaxRecoverAttempt)

\* thread t has left its target function
Exited(t) == pc[t] \in {"done", "crashed"}

\* C11: once stop_processing is set, the supervisory thread and the Sender
\* thread each eventually leave their loops, wherever they were (inside a
\* retry sequence of _connect_websocket, waiting for the lock, with the
\* queue empty or not).
C11_LoopsTerminate ==
  stop_processing ~> (Exited("mgr") /\ Exited("snd"))

\* C11 witness: both loops have ended through their loop tests; the
\* supervisory thread was stopped inside a retry sequence and a message is
\* still queued
C11_Witness ==
  /\ stop_processing
  /\ pc["mgr"] = "done" /\ pc["snd"] = "done"
  /\ attempt["mgr"] >= 1
  /\ message_queue # <<>>

\* create_connection or ws.send raises (lines 75, 89, 118)
FailureStep ==
  \E t \in Loops :
    \/ pc[t] = "c_create" /\ pc'[t] = "c_sleep"
    \/ pc[t] = "h_send" /\ pc'[t] = "h_exc"
    \/ pc[t] = "sm_send" /\ pc'[t] = "sm_exc"

\* the stored handle is live
Connected == ws # None /\ ws \in connected

\* C12: with the stop flag never set and, from some point on, no
\* create_connection and no ws.send raising, the publisher is eventually
\* Connected and the queue is eventually drained for good: no accepted
\* message stays in it untransmitted.
C12_Recovers ==
  ([]~stop_processing /\ <>[][~FailureStep]_vars)
    => (<>Connected /\ <>[](message_queue = <<>>))

\* thread t is inside _connect_websocket (lines 60-79)
InConnect(t) == pc[t] \in {"c_while", "c_lock", "c_create", "c_sleep"}

\* the connection state of the publisher: Connected while a live handle is
\* stored, otherwise Connecting while a thread is inside _connect_websocket,
\* otherwise Disconnected
ConnectionState ==
  IF Connected THEN "Connected"
  ELSE IF \E t \in Loops : InConnect(t) THEN "Connecting"
  ELSE "Disconnected"

\* C13: no step leads from Connected to Connecting, none replaces a live
\* stored handle by another handle, and none leads from Disconnected to
\* Connected.
C13_ConnectionEdges ==
  [][/\ ConnectionState = "Connected" => ConnectionState' # "Connecting"
     /\ (ConnectionState = "Connected" /\ ConnectionState' = "Connected")
          => ws' = ws
     /\ ConnectionState = "Disconnected" => ConnectionState' # "Connected"]_vars

\* the places where a thread loads or stores self.ws or calls into the handle:
\* the checks of lines 54, 83, 107, 109 and 170, create_connection and the
\* store of line 69, ws.send of lines 86 and 115, the clearing of lines 93 and
\* 122, ws.close of line 172
HandleLabels ==
  {"m_if", "m_if2", "h_if", "h_if2", "sm_if", "sm_if2", "sm_if3", "sm_if4",
   "d_if", "c_create", "h_send", "sm_send", "h_clear", "sm_clear", "d_close"}

\* thread t executes one of them
TouchesHandle(t) == pc[t] \in HandleLabels /\ pc'[t] # pc[t]

\* thread t has passed its connected-check and is about to send, or sending
AboutToSend(t) == pc[t] \in {"h_lock", "h_send", "sm_lock", "sm_send"}

\* threads inside create_connection, ws.send or ws.close
InTransport ==
  {t \in Threads : pc[t] \in {"c_create", "h_send", "sm_send", "d_close"}}

\* what a thread about to send has checked is still the case
DecisionStillTrue == \A t \in Loops : AboutToSend(t) => Connected

\* C14: at most one thread is inside a transport operation; every step that
\* loads or stores self.ws is taken by the thread holding ws_lock; a thread
\* that decided to send on a live handle still finds that decision true when
\* it sends.
C14_LockDiscipline ==
  /\ [](Cardinality(InTransport) <= 1)
  /\ [][\A t \in Threads : TouchesHandle(t) => ws_lock = t]_vars
  /\ []DecisionStillTrue

\* the supervisory thread is inside _send_heartbeat (lines 81-93)
InHeartbeat == pc["mgr"] \in {"h_if", "h_if2", "h_lock", "h_send", "h_exc", "h_clear"}

\* C15: while stop_processing is unset the supervisory thread is inside its
\* loop; a tick that entered _connect_websocket goes on to the sleep of line
\* 58 without a heartbeat, and one that entered _send_heartbeat without a
\* connect.
C15_SupervisorRuns ==
  /\ [](~stop_processing => pc["mgr"] \notin {"crashed", "done"})
  /\ [][/\ InConnect("mgr") => ~InHeartbeat'
        /\ InHeartbeat => ~InConnect("mgr")']_vars

\* C16: once ws.send of line 86 has raised, the supervisory thread only waits
\* for the lock, sets self.ws to None and goes to the sleep of line 58, from
\* where the next step is the loop test of line 53: no second heartbeat, no
\* connect, and the thread stays in its loop.
C16_HeartbeatFailure ==
  [][/\ pc["mgr"] = "h_exc" => pc'["mgr"] \in {"h_exc", "h_clear"}
     /\ pc["mgr"] = "h_clear" =>
          \/ pc'["mgr"] = "h_clear" /\ ws' = ws
          \/ pc'["mgr"] = "m_sleep" /\ ws' = None
     /\ pc["mgr"] = "m_sleep" => pc'["mgr"] \in {"m_sleep", "m_while"}]_vars

\* C16 witness: no frame was handed in, so the failure on handle 1 was the
\* heartbeat's; the handle is cleared and the supervisory thread is in the
\* sleep that ends the tick
C16_Witness ==
  /\ nframes = 0
  /\ failed = {1}
  /\ ws = None
  /\ pc["mgr"] = "m_sleep"
  /\ ~stop_processing

\* the Sender is in the except clause of _send_message or in the
\* _connect_websocket call that ends it (lines 118-123)
AfterFailedSend ==
  \/ pc["snd"] \in {"sm_exc", "sm_clear"}
  \/ InConnect("snd") /\ back["snd"] = "s_done"

\* the Sender is at the check of line 109, after the _connect_websocket call
\* of line 108 returned
AfterConnect == pc["snd"] \in {"sm_if3", "sm_if4"}

\* the messages taken and the messages queued are the messages accepted, in
\* order: nothing taken is ever in the queue again
NeverPutBack == accepted = taken \o message_queue

\* a message, once its ws.send has returned or raised, is not submitted again
SubmittedOnce ==
  /\ pc["snd"] = "sm_send" => pc'["snd"] \in {"sm_send", "s_done", "sm_exc"}
  /\ AfterFailedSend => (AfterFailedSend' \/ pc'["snd"] = "s_done")
  /\ pc["snd"] = "s_done" => pc'["snd"] \in {"s_done", "s_while"}

\* after the connect of line 108 the message is sent or dropped, without a
\* second connect, and the Sender goes on to the next message
ConnectsOnce ==
  AfterConnect => pc'["snd"] \in {"sm_if3", "sm_if4", "sm_lock", "s_done"}

\* C17: a dequeued message enters ws.send at most once and is never in the
\* queue again; after a failed send the Sender clears the handle, connects
\* and drops the message; after the connect of line 108 it sends or drops the
\* message; in both cases it reaches task_done and the loop test.
C17_AtMostOnce ==
  /\ []NeverPutBack
  /\ [][SubmittedOnce]_vars
  /\ [][ConnectsOnce]_vars

\* C18: once __del__ has returned, the stored handle is absent or closed.
C18_TeardownCloses == pc["del"] = "done" => ~Connected

\* C19: whenever _connect_websocket stores a new handle (line 69), the handle
\* stored until then is absent or closed: no live handle is overwritten and
\* left open without a reference.
C19_SingleConnection ==
  [][(\E t \in Loops : ConnectSucceeds(t)) => ~Connected]_vars

\* thread t executes self.ws = None in its except clause (line 93 or 122)
Clears(t) ==
  /\ pc[t] = (IF t = "mgr" THEN "h_clear" ELSE "sm_clear")
  /\ pc'[t] # pc[t]

\* C20: the handle a failure handler discards is one on which a send has
\* raised (or there is none stored): a handle connected after the failure
\* is never the one cleared.
C20_ClearsFailedOnly ==
  [][\A t \in Loops : Clears(t) => (ws = None \/ ws \in failed)]_vars

====
